---- MODULE Spec2Model ----
(***************************************************************************)
(* A model of tr069excelifier.py: the conversion of a TR-069 device model  *)
(* (XML) into a two-sheet workbook.                                        *)
(*                                                                         *)
(* Text is a sequence of one-character strings, so that the regular        *)
(* expression substitutions, the padding and the joins of the source are   *)
(* computed character by character.  None (an absent attribute, an absent  *)
(* element, find() without a match) is the value None.                     *)
(***************************************************************************)
EXTENDS Integers, Sequences, FiniteSets

\* An optional value (an attribute, a child element, the result of find()):
\* None, or Some(v).
None == <<>>
Some(v) == <<v>>
Get(o) == o[1]

\* str(None), as "{}".format(None) renders it.
NoneText == <<"N", "o", "n", "e">>
Str(o) == IF o = None THEN NoneText ELSE Get(o)

(***************************************************************************)
(* Text helpers.                                                           *)
(***************************************************************************)
SP == " "
NL == "\n"

\* The characters of the model's alphabet that the regex class \w rejects.
NonWordChars == {" ", "\n", "{", "}", "|", ".", "(", ")", ",", "<"}

IsWordChar(c) == c \notin NonWordChars

\* Python's str.strip() removes these (of the model's alphabet).
IsSpaceChar(c) == c \in {" ", "\n"}

StartsWithAt(s, i, p) ==
    /\ i + Len(p) - 1 <= Len(s)
    /\ \A k \in 1..Len(p) : s[i + k - 1] = p[k]

Contains(s, p) == \E i \in 1..(Len(s) + 1) : StartsWithAt(s, i, p)

IsPrefix(p, s) == StartsWithAt(s, 1, p)

RECURSIVE SubLiteralFrom(_, _, _, _)
SubLiteralFrom(s, i, p, r) ==
    IF i > Len(s) THEN <<>>
    ELSE IF StartsWithAt(s, i, p)
         THEN r \o SubLiteralFrom(s, i + Len(p), p, r)
         ELSE <<s[i]>> \o SubLiteralFrom(s, i + 1, p, r)

\* re.sub(p, r, s) for a literal, non-empty pattern p: leftmost, non-overlapping.
SubLiteral(p, r, s) == SubLiteralFrom(s, 1, p, r)

\* The end (exclusive) of the longest run of characters satisfying a class,
\* starting at i.
RECURSIVE RunEnd(_, _, _)
RunEnd(s, i, word) ==
    IF i > Len(s) THEN i
    ELSE IF (word /\ IsWordChar(s[i])) \/ (~word /\ s[i] # "}")
         THEN RunEnd(s, i + 1, word)
         ELSE i

RECURSIVE SpaceRunEnd(_, _)
SpaceRunEnd(s, i) ==
    IF i <= Len(s) /\ s[i] = SP THEN SpaceRunEnd(s, i + 1) ELSE i

RECURSIVE CollapseFrom(_, _)
CollapseFrom(s, i) ==
    IF i > Len(s) THEN <<>>
    ELSE IF s[i] = SP
         THEN <<SP>> \o CollapseFrom(s, SpaceRunEnd(s, i))
         ELSE <<s[i]>> \o CollapseFrom(s, i + 1)

\* re.sub(' +', ' ', s)
CollapseSpaces(s) == CollapseFrom(s, 1)

\* re.sub('\n', '', s)
RemoveNewlines(s) == SubLiteral(<<NL>>, <<>>, s)

RECURSIVE LStrip(_)
LStrip(s) == IF s # <<>> /\ IsSpaceChar(Head(s)) THEN LStrip(Tail(s)) ELSE s

RECURSIVE RStrip(_)
RStrip(s) ==
    IF s # <<>> /\ IsSpaceChar(s[Len(s)])
    THEN RStrip(SubSeq(s, 1, Len(s) - 1))
    ELSE s

\* str.strip()
Strip(s) == RStrip(LStrip(s))

\* str.ljust / the format spec {:<n}: pad on the right with spaces to width n.
RECURSIVE PadRight(_, _)
PadRight(s, n) == IF Len(s) >= n THEN s ELSE PadRight(s \o <<SP>>, n)

RECURSIVE Join(_, _)
Join(parts, sep) ==
    IF parts = <<>> THEN <<>>
    ELSE IF Len(parts) = 1 THEN parts[1]
    ELSE parts[1] \o sep \o Join(Tail(parts), sep)

(***************************************************************************)
(* clean_model: process_text and map_params.                               *)
(***************************************************************************)
\* process_text: collapse the runs of spaces, then remove the newlines, then
\* strip.
process_text(text) == Strip(RemoveNewlines(CollapseSpaces(text)))

PhObject == <<"{", "{", "o", "b", "j", "e", "c", "t", "}", "}">>
PhParam == <<"{", "{", "p", "a", "r", "a", "m", "}", "}">>
PhUnits == <<"{", "{", "u", "n", "i", "t", "s", "}", "}">>

\* The alternatives of the regex `filtered`, in its order.
Filtered ==
    << <<" ", "{", "{", "n", "u", "m", "e", "n", "t", "r", "i", "e", "s", "}", "}">>,
       <<" ", "{", "{", "d", "a", "t", "a", "t", "y", "p", "e", "|", "e", "x", "p", "a", "n", "d", "}", "}">>,
       <<" ", "{", "{", "p", "a", "t", "t", "e", "r", "n", "}", "}">>,
       <<" ", "{", "{", "e", "n", "u", "m", "}", "}">>,
       <<" ", "{", "{", "l", "i", "s", "t", "}", "}">>,
       <<" ", "{", "{", "r", "e", "f", "e", "r", "e", "n", "c", "e", "}", "}">>,
       <<" ", "{", "{", "n", "o", "r", "e", "f", "e", "r", "e", "n", "c", "e", "}", "}">> >>

\* The length of the match of `filtered` at i, or 0.
FilteredMatchLen(s, i) ==
    LET hits == {k \in 1..Len(Filtered) : StartsWithAt(s, i, Filtered[k])}
    IN  IF hits = {} THEN 0
        ELSE Len(Filtered[CHOOSE k \in hits : \A m \in hits : k <= m])

RECURSIVE SubFilteredFrom(_, _)
SubFilteredFrom(s, i) ==
    IF i > Len(s) THEN <<>>
    ELSE IF FilteredMatchLen(s, i) > 0
         THEN SubFilteredFrom(s, i + FilteredMatchLen(s, i))
         ELSE <<s[i]>> \o SubFilteredFrom(s, i + 1)

\* re.sub(filtered, r'', text)
SubFiltered(s) == SubFilteredFrom(s, 1)

\* A match of {{\w+\|([^}]+)}} at i: <<start of the payload, its end
\* (exclusive)>>, or <<0, 0>>.  Both runs are maximal: the character after
\* \w+ must be "|", which is no word character, and the one after [^}]+
\* must be "}".
PipedMatch(s, i) ==
    IF ~StartsWithAt(s, i, <<"{", "{">>) THEN <<0, 0>>
    ELSE LET w == RunEnd(s, i + 2, TRUE)
         IN  IF w = i + 2 \/ ~StartsWithAt(s, w, <<"|">>) THEN <<0, 0>>
             ELSE LET p == RunEnd(s, w + 1, FALSE)
                  IN  IF p = w + 1 \/ ~StartsWithAt(s, p, <<"}", "}">>)
                      THEN <<0, 0>>
                      ELSE <<w + 1, p>>

RECURSIVE SubPipedFrom(_, _)
SubPipedFrom(s, i) ==
    IF i > Len(s) THEN <<>>
    ELSE LET m == PipedMatch(s, i)
         IN  IF m[1] > 0
             THEN SubSeq(s, m[1], m[2] - 1) \o SubPipedFrom(s, m[2] + 2)
             ELSE <<s[i]>> \o SubPipedFrom(s, i + 1)

\* re.sub(r'{{\w+\|([^}]+)}}', r'\1', text)
SubPiped(s) == SubPipedFrom(s, 1)

\* A match of {{(\w+)}} at i: the end (exclusive) of the word, or 0.
WordMatch(s, i) ==
    IF ~StartsWithAt(s, i, <<"{", "{">>) THEN 0
    ELSE LET w == RunEnd(s, i + 2, TRUE)
         IN  IF w = i + 2 \/ ~StartsWithAt(s, w, <<"}", "}">>) THEN 0 ELSE w

RECURSIVE SubWordFrom(_, _)
SubWordFrom(s, i) ==
    IF i > Len(s) THEN <<>>
    ELSE LET w == WordMatch(s, i)
         IN  IF w > 0
             THEN SubSeq(s, i + 2, w - 1) \o SubWordFrom(s, w + 2)
             ELSE <<s[i]>> \o SubWordFrom(s, i + 1)

\* re.sub(r'{{(\w+)}}', r'\1', text)
SubWord(s) == SubWordFrom(s, 1)

\* map_params with the {{word}} fallback run first instead of last.
map_params_fallback_first(rowObject, rowParameter, text) ==
    LET t0 == SubWord(text)
        t1 == SubLiteral(PhObject, rowObject, t0)
        t2 == SubLiteral(PhParam, rowParameter, t1)
        t3 == SubFiltered(t2)
    IN  SubPiped(t3)

\* map_params(row, column): the five substitutions, in the source's order.
map_params(rowObject, rowParameter, text) ==
    LET t1 == SubLiteral(PhObject, rowObject, text)
        t2 == SubLiteral(PhParam, rowParameter, t1)
        t3 == SubFiltered(t2)
        t4 == SubPiped(t3)
    IN  SubWord(t4)

(***************************************************************************)
(* XML elements.  A child of <syntax> is [tag, text, kids]; a grandchild   *)
(* is [tag, value, nkids], value being its value or maxLength attribute    *)
(* and nkids the number of its own children.                               *)
(***************************************************************************)
\* Element.find(tag): the first child with that tag, or None.
Find(kids, tag) ==
    LET hits == {i \in 1..Len(kids) : kids[i].tag = tag}
    IN  IF hits = {} THEN None
        ELSE Some(kids[CHOOSE i \in hits : \A j \in hits : i <= j])

\* Element.findall(tag): the children with that tag, in document order.
FindAll(kids, tag) == SelectSeq(kids, LAMBDA k : k.tag = tag)

\* bool(element) for the result of find(): an Element is true only if it has
\* children; None is false.
Truthy(e) == e # None /\ Len(Get(e).kids) > 0
TruthyLeaf(e) == e # None /\ Get(e).nkids > 0

(***************************************************************************)
(* get_params                                                              *)
(***************************************************************************)
FlagWidth == 8

\* add_optionals(prev, param_name), given obj.get(param_name).
add_optionals(prev, optional) ==
    IF optional # None /\ Get(optional) # <<>>
    THEN prev \o <<SP>> \o PadRight(Get(optional), FlagWidth) \o <<SP>>
    ELSE prev

EnumsOpen == <<"E", "n", "u", "m", "s", " ", "(">>
StringToken == <<"S", "t", "r", "i", "n", "g">>
BooleanToken == <<"B", "o", "o", "l", "e", "a", "n">>
MaxLengthText == <<"m", "a", "x", " ", "l", "e", "n", "g", "t", "h", " ">>
InText == <<" ", "i", "n", " ">>

\* "Enums ({})".format("|".join([e.get('value') for e in enum_type]))
EnumsText(enum_type) ==
    EnumsOpen \o Join([i \in 1..Len(enum_type) |-> enum_type[i].value], <<"|">>)
              \o <<")">>

\* The string branch without the enumeration case.
StringSyntaxNoEnums(prev, string) ==
    LET size == Find(string.kids, "size")
        syntax_text == IF TruthyLeaf(size)
                       THEN MaxLengthText \o Get(size).value
                       ELSE <<>>
    IN  prev \o <<SP>> \o StringToken \o syntax_text

\* The string branch of add_syntax (lines 97-107): the new prev.
StringSyntax(prev, string) ==
    LET enum_type == FindAll(string.kids, "enumeration")
        size == Find(string.kids, "size")
        syntax_text == IF TruthyLeaf(size)
                       THEN MaxLengthText \o Get(size).value
                       ELSE <<>>
    IN  IF enum_type # <<>>
        THEN EnumsText(enum_type)
        ELSE prev \o <<SP>> \o StringToken \o syntax_text

\* The first-child branch of add_syntax (lines 79-91): <<prev, desc>>.
FirstChildSyntax(prev, desc, first) ==
    LET tagText == first.tagtext
        units_tag == Find(first.kids, "units")
    IN  IF units_tag # None
        THEN << prev \o <<SP>> \o tagText \o InText \o Get(units_tag).value,
                SubLiteral(PhUnits, Get(units_tag).value, desc) >>
        ELSE << prev \o <<SP>> \o tagText, desc >>

\* The type part of add_syntax (lines 73-110), for a syntax with children.
TypeSyntax(prev, desc, syntax) ==
    LET boolean == Find(syntax, "boolean")
        string == Find(syntax, "string")
    IN  IF ~Truthy(boolean)
        THEN IF ~Truthy(string)
             THEN FirstChildSyntax(prev, desc, syntax[1])
             ELSE << StringSyntax(prev, Get(string)), desc >>
        ELSE << prev \o <<SP>> \o BooleanToken, desc >>

\* add_syntax(prev, desc) for the element obj: <<prev, desc>>.
add_syntax(obj, prev, desc) ==
    IF obj.syntax # None /\ Len(Get(obj.syntax)) > 0
    THEN LET syntax == Get(obj.syntax)
             typed == TypeSyntax(prev, desc, syntax)
             default == Find(syntax, "default")
         IN  IF Truthy(default)
             THEN << typed[1] \o <<SP>> \o Str(Get(default).text), typed[2] >>
             ELSE typed
    ELSE << prev, desc >>

\* The text get_params builds before the syntax: the three optional flags.
OptionalsText(obj) ==
    add_optionals(add_optionals(add_optionals(<<>>, obj.status),
                                obj.activeNotify),
                  obj.forcedInform)

\* get_params(obj), for a parameter element with a description.
get_params(obj) ==
    LET r == add_syntax(obj, OptionalsText(obj), Get(obj.description))
    IN  [name |-> obj.name, access |-> obj.access,
         desc |-> r[1] \o <<SP>> \o r[2]]

(***************************************************************************)
(* The Model table.  A record of parse_object (a dict) holds the values of *)
(* Element.get(), which may be None; the DataFrame cells that clean_model  *)
(* returns are text.                                                       *)
(***************************************************************************)
\* parse_object without the row of an object that has no parameters.
parse_object_no_empty_row(obj) ==
    LET description == CollapseSpaces(Get(obj.description))
        params == obj.parameters
    IN  [i \in 1..Len(params) |->
            LET p == get_params(params[i])
            IN  [Object |-> obj.name, Access |-> obj.access,
                 Description |-> description,
                 Parameter |-> p.name, ParameterAccess |-> p.access,
                 ParameterDescription |-> p.desc]]

\* parse_object(obj), for an object whose description (and those of its
\* parameters) is present.
parse_object(obj) ==
    LET description == CollapseSpaces(Get(obj.description))
        params == obj.parameters
    IN  IF params # <<>>
        THEN [i \in 1..Len(params) |->
                LET p == get_params(params[i])
                IN  [Object |-> obj.name, Access |-> obj.access,
                     Description |-> description,
                     Parameter |-> p.name, ParameterAccess |-> p.access,
                     ParameterDescription |-> p.desc]]
        ELSE << [Object |-> obj.name, Access |-> obj.access,
                 Description |-> description,
                 Parameter |-> Some(<<>>), ParameterAccess |-> Some(<<>>),
                 ParameterDescription |-> <<>>] >>

\* obj.find('description').text raises on an element without description:
\* the object's own (lines 151, 161) or a parameter's (line 118).
ParseObjectRaises(obj) ==
    \/ obj.description = None
    \/ \E i \in 1..Len(obj.parameters) : obj.parameters[i].description = None

\* A cell that is None makes process_text raise (re.sub on None).
HasNoneCell(rec) ==
    None \in {rec.Object, rec.Access, rec.Parameter, rec.ParameterAccess}

\* pd.DataFrame.from_records(objects), for records without None.
DataFrame(records) ==
    [i \in 1..Len(records) |->
        [Object |-> Get(records[i].Object), Access |-> Get(records[i].Access),
         Description |-> records[i].Description,
         Parameter |-> Get(records[i].Parameter),
         ParameterAccess |-> Get(records[i].ParameterAccess),
         ParameterDescription |-> records[i].ParameterDescription]]

\* model.applymap(process_text)
ApplyProcessText(df) ==
    [i \in 1..Len(df) |->
        [Object |-> process_text(df[i].Object),
         Access |-> process_text(df[i].Access),
         Description |-> process_text(df[i].Description),
         Parameter |-> process_text(df[i].Parameter),
         ParameterAccess |-> process_text(df[i].ParameterAccess),
         ParameterDescription |-> process_text(df[i].ParameterDescription)]]

\* clean_model(model): process_text on every cell, then map_params on the
\* two description columns, with the row's cleaned Object and Parameter.
clean_model(df) ==
    LET m == ApplyProcessText(df)
    IN  [i \in 1..Len(m) |->
            [m[i] EXCEPT
                !.ParameterDescription =
                    map_params(m[i].Object, m[i].Parameter,
                               m[i].ParameterDescription),
                !.Description =
                    map_params(m[i].Object, m[i].Parameter, m[i].Description)]]

(***************************************************************************)
(* Grouping: the merge ranges of parse_model.                              *)
(***************************************************************************)
\* pd.unique(values): the distinct values in order of first appearance.
RECURSIVE Unique(_)
Unique(values) ==
    IF values = <<>> THEN <<>>
    ELSE LET init == Unique(SubSeq(values, 1, Len(values) - 1))
             last == values[Len(values)]
         IN  IF \E i \in 1..Len(init) : init[i] = last
             THEN init
             ELSE Append(init, last)

SetMin(S) == CHOOSE m \in S : \A n \in S : m <= n
SetMax(S) == CHOOSE m \in S : \A n \in S : m >= n

\* The offset of the merge ranges (lines 308): the index labels start at 0,
\* the sheet rows at 1, and row 1 is the header.
RangeShift == 2

\* The index labels (0-based) of the rows of df whose Object is o.
IndexOf(df, o) == {i - 1 : i \in {j \in 1..Len(df) : df[j].Object = o}}

\* index_ranges_list shifted by 1 only: the header row forgotten.
IndexRangesNoHeader(df) ==
    LET unique_items == Unique([i \in 1..Len(df) |-> df[i].Object])
    IN  [k \in 1..Len(unique_items) |->
            << 1 + SetMin(IndexOf(df, unique_items[k])),
               1 + SetMax(IndexOf(df, unique_items[k])) >>]

\* index_ranges_list (line 308), for a frame with an Object column.
IndexRanges(df) ==
    LET unique_items == Unique([i \in 1..Len(df) |-> df[i].Object])
    IN  [k \in 1..Len(unique_items) |->
            << RangeShift + SetMin(IndexOf(df, unique_items[k])),
               RangeShift + SetMax(IndexOf(df, unique_items[k])) >>]

(***************************************************************************)
(* The Profiles table.                                                     *)
(***************************************************************************)
RequirementWidth == 12

\* get_profile_params(obj): "{:<12} {}".format(access, name); the format
\* spec raises on None, "{}" renders it.
get_profile_params(obj) ==
    PadRight(Get(obj.requirement), RequirementWidth) \o <<SP>> \o Str(obj.ref)

GetProfileParamsRaises(obj) == obj.requirement = None

\* parse_profile(obj, profile); index is the record's position in the list,
\* which from_records makes its index label.
parse_profile(obj, profile, index) ==
    [Profile |-> profile.name, Name |-> obj.ref,
     Requirement |-> obj.requirement,
     Base |-> IF profile.base = None THEN <<>> ELSE Get(profile.base),
     Extends |-> IF profile.extends = None THEN <<>> ELSE Get(profile.extends),
     Parameters |->
        IF obj.parameters # <<>>
        THEN Some(Join([i \in 1..Len(obj.parameters) |->
                            get_profile_params(obj.parameters[i])], <<NL>>))
        ELSE None,
     index |-> index]

ParseProfileRaises(obj) ==
    \E i \in 1..Len(obj.parameters) : GetProfileParamsRaises(obj.parameters[i])

\* The (profile, object reference) pairs in document order.
RECURSIVE ProfilePairs(_)
ProfilePairs(profs) ==
    IF profs = <<>> THEN <<>>
    ELSE ProfilePairs(SubSeq(profs, 1, Len(profs) - 1)) \o
         [j \in 1..Len(profs[Len(profs)].objects) |->
            [profile |-> profs[Len(profs)], obj |-> profs[Len(profs)].objects[j]]]

\* The list comprehension of line 303.
ParseProfiles(profs) ==
    LET pairs == ProfilePairs(profs)
    IN  [i \in 1..Len(pairs) |-> parse_profile(pairs[i].obj, pairs[i].profile, i - 1)]

\* The code points of the characters the sort keys of the model use.
CodePoint(c) ==
    CASE c = "A" -> 65 [] c = "B" -> 66 [] c = "a" -> 97 [] c = "b" -> 98
      [] c = "x" -> 120 [] c = "y" -> 121 [] c = "." -> 46

\* s < t for Python strings: by code point, a proper prefix first.
RECURSIVE StrLess(_, _)
StrLess(s, t) ==
    IF t = <<>> THEN FALSE
    ELSE IF s = <<>> THEN TRUE
    ELSE IF s[1] = t[1] THEN StrLess(Tail(s), Tail(t))
    ELSE CodePoint(s[1]) < CodePoint(t[1])

\* The order of one key column: None (NaN) sorts last.
CellLess(a, b) ==
    IF a = None THEN FALSE
    ELSE IF b = None THEN TRUE
    ELSE StrLess(Get(a), Get(b))

\* The order under by=['Profile', 'Name'] alone.
KeyLessNoBase(r, s) ==
    \/ CellLess(r.Profile, s.Profile)
    \/ r.Profile = s.Profile /\ CellLess(r.Name, s.Name)

\* r before s under by=['Profile', 'Name', 'Base'].
KeyLess(r, s) ==
    \/ CellLess(r.Profile, s.Profile)
    \/ /\ r.Profile = s.Profile
       /\ \/ CellLess(r.Name, s.Name)
          \/ r.Name = s.Name /\ StrLess(r.Base, s.Base)

\* Insert r behind every row that does not sort after it.
RECURSIVE InsertSorted(_, _)
InsertSorted(sorted, r) ==
    IF sorted = <<>> THEN <<r>>
    ELSE IF KeyLess(r, Head(sorted))
         THEN <<r>> \o sorted
         ELSE <<Head(sorted)>> \o InsertSorted(Tail(sorted), r)

\* DataFrame.sort_values(by=['Profile', 'Name', 'Base']): on several keys
\* pandas sorts with a stable lexsort.
RECURSIVE SortValues(_)
SortValues(rows) ==
    IF rows = <<>> THEN <<>>
    ELSE InsertSorted(SortValues(SubSeq(rows, 1, Len(rows) - 1)), rows[Len(rows)])

(***************************************************************************)
(* State.                                                                  *)
(***************************************************************************)
VARIABLES
    \* parse_model
    doc,                \* the input document (what ET.parse will read)
    pc,                 \* the position of parse_model
    version,            \* line 299
    objects,            \* line 302
    profiles,           \* line 303
    df_model,           \* line 305
    index_ranges_list,  \* line 308
    index0,             \* the label of the first row after line 310
    df_profile,         \* line 312
    wb,                 \* the workbook in memory, lines 315-341
    outfile,            \* the file at the output path
    stages,             \* the stages completed so far, in order
    \* clean_model on a table of its own
    model, cleaned, recleaned, tpc,
    \* get_params on a parameter of its own
    param, result, ppc

pvars == << doc, pc, version, objects, profiles, df_model, index_ranges_list,
            index0, df_profile, wb, outfile, stages >>
tvars == << model, cleaned, recleaned, tpc >>
gvars == << param, result, ppc >>
vars == << pvars, tvars, gvars >>

EmptyWorkbook == [Model |-> <<>>, Profiles |-> <<>>, merged |-> <<>>]

(***************************************************************************)
(* parse_model, stage by stage.  An exception ends the run (pc =           *)
(* "aborted"): nothing catches it.                                         *)
(***************************************************************************)
Abort ==
    /\ pc' = "aborted"
    /\ UNCHANGED << doc, version, objects, profiles, df_model,
                    index_ranges_list, index0, df_profile, wb, outfile, stages >>

\* Lines 296-299: ET.parse raises on an unparsable document; model.get
\* raises when find('model') returned None.
Load ==
    /\ pc = "start"
    /\ IF ~doc.parses \/ doc.model = None
       THEN Abort
       ELSE /\ version' = Get(doc.model).name
            /\ pc' = "loaded"
            /\ stages' = Append(stages, "load")
            /\ UNCHANGED << doc, objects, profiles, df_model, index_ranges_list,
                            index0, df_profile, wb, outfile >>
    /\ UNCHANGED << tvars, gvars >>

\* The concatenation of parse_object over the objects (line 302).
RECURSIVE ParseObjects(_)
ParseObjects(objs) ==
    IF objs = <<>> THEN <<>>
    ELSE ParseObjects(SubSeq(objs, 1, Len(objs) - 1)) \o parse_object(objs[Len(objs)])

\* Lines 302-303.
Flatten ==
    /\ pc = "loaded"
    /\ LET m == Get(doc.model)
           pairs == ProfilePairs(m.profiles)
       IN  IF \/ \E i \in 1..Len(m.objects) : ParseObjectRaises(m.objects[i])
              \/ \E i \in 1..Len(pairs) : ParseProfileRaises(pairs[i].obj)
           THEN Abort
           ELSE /\ objects' = ParseObjects(m.objects)
                /\ profiles' = ParseProfiles(m.profiles)
                /\ pc' = "flattened"
                /\ stages' = Append(stages, "flatten")
                /\ UNCHANGED << doc, version, df_model, index_ranges_list,
                                index0, df_profile, wb, outfile >>
    /\ UNCHANGED << tvars, gvars >>

\* Line 305.  A None cell raises in process_text.  Of an empty list
\* from_records makes a frame without columns: whether the column
\* assignments of clean_model (lines 283-284) accept it depends on the pandas
\* release, so the run either aborts here or goes on with the empty frame.
Clean ==
    /\ pc = "flattened"
    /\ IF \E i \in 1..Len(objects) : HasNoneCell(objects[i])
       THEN Abort
       ELSE \/ /\ objects = <<>>
               /\ Abort
            \/ /\ df_model' = clean_model(DataFrame(objects))
               /\ pc' = "cleaned"
               /\ stages' = Append(stages, "clean")
               /\ UNCHANGED << doc, version, objects, profiles,
                               index_ranges_list, index0, df_profile, wb,
                               outfile >>
    /\ UNCHANGED << tvars, gvars >>

ObjectLabel == <<"O", "b", "j", "e", "c", "t", " ", "(">>

\* Lines 307-310.  A frame without rows has no column 'Object': line 307
\* raises KeyError.
Ranges ==
    /\ pc = "cleaned"
    /\ IF df_model = <<>>
       THEN Abort
       ELSE /\ index_ranges_list' = IndexRanges(df_model)
            /\ index0' = Some(ObjectLabel \o Str(version) \o <<")">>)
            /\ pc' = "ranged"
            /\ stages' = Append(stages, "ranges")
            /\ UNCHANGED << doc, version, objects, profiles, df_model,
                            df_profile, wb, outfile >>
    /\ UNCHANGED << tvars, gvars >>

\* Line 312.  A frame without rows has no column 'Profile': sort_values
\* raises KeyError.
SortProfiles ==
    /\ pc = "ranged"
    /\ IF profiles = <<>>
       THEN Abort
       ELSE /\ df_profile' = SortValues(profiles)
            /\ pc' = "sorted"
            /\ stages' = Append(stages, "sort")
            /\ UNCHANGED << doc, version, objects, profiles, df_model,
                            index_ranges_list, index0, wb, outfile >>
    /\ UNCHANGED << tvars, gvars >>

\* The cells merged by lines 324-326: per range, the columns A, B and C.
RECURSIVE MergedCells(_)
MergedCells(ranges) ==
    IF ranges = <<>> THEN <<>>
    ELSE MergedCells(SubSeq(ranges, 1, Len(ranges) - 1)) \o
         [c \in 1..3 |->
            [column |-> << "A", "B", "C" >>[c],
             min_cell |-> ranges[Len(ranges)][1],
             max_cell |-> ranges[Len(ranges)][2]]]

\* The header rows dataframe_to_rows yields first (header=True).
ModelHeader ==
    [Object |-> << "Object" >>, Access |-> << "Access" >>,
     Description |-> << "Description" >>, Parameter |-> << "Parameter" >>,
     ParameterAccess |-> << "Parameter Access" >>,
     ParameterDescription |-> << "Parameter Description" >>]

ProfilesHeader ==
    [Profile |-> Some(<< "Profile" >>), Name |-> Some(<< "Name" >>),
     Requirement |-> Some(<< "Requirement" >>), Base |-> << "Base" >>,
     Extends |-> << "Extends" >>, Parameters |-> Some(<< "Parameters" >>)]

\* A row as dataframe_to_rows(index=False) yields it: without the index label.
SheetRow(r) ==
    [Profile |-> r.Profile, Name |-> r.Name, Requirement |-> r.Requirement,
     Base |-> r.Base, Extends |-> r.Extends, Parameters |-> r.Parameters]

\* Lines 315-341: build_sheet appends the header row and then the rows of
\* the frame; fonts, alignment and column widths are not part of the state.
BuildWorkbook ==
    /\ pc = "sorted"
    /\ wb' = [Model |-> << ModelHeader >> \o df_model,
              Profiles |-> << ProfilesHeader >> \o
                           [i \in 1..Len(df_profile) |-> SheetRow(df_profile[i])],
              merged |-> MergedCells(index_ranges_list)]
    /\ pc' = "built"
    /\ stages' = Append(stages, "build")
    /\ UNCHANGED << doc, version, objects, profiles, df_model,
                    index_ranges_list, index0, df_profile, outfile >>
    /\ UNCHANGED << tvars, gvars >>

\* The save placed before the sort of the profiles.
SaveBeforeSort ==
    /\ pc = "ranged"
    /\ outfile' = "written"
    /\ pc' = "done"
    /\ stages' = Append(stages, "save")
    /\ UNCHANGED << doc, version, objects, profiles, df_model,
                    index_ranges_list, index0, df_profile, wb >>
    /\ UNCHANGED << tvars, gvars >>

\* Line 342: wb.save(output) writes the file, or fails on the way.
Save ==
    /\ pc = "built"
    /\ \E ok \in BOOLEAN :
        IF ok
        THEN /\ outfile' = "written"
             /\ pc' = "done"
             /\ stages' = Append(stages, "save")
        ELSE /\ outfile' = "partial"
             /\ pc' = "aborted"
             /\ stages' = stages
    /\ UNCHANGED << doc, version, objects, profiles, df_model,
                    index_ranges_list, index0, df_profile, wb >>
    /\ UNCHANGED << tvars, gvars >>

(***************************************************************************)
(* Input documents.                                                        *)
(***************************************************************************)
MaxObjects == 3
MaxParams == 2
MaxProfiles == 2

\* The sequences over S of length at most n.
SeqUpTo(S, n) == UNION {[1..k -> S] : k \in 0..n}

Digit(k) == << "1", "2", "3", "4", "5", "6", "7", "8", "9" >>[k]

ReadOnly == <<"r", "O">>
ReadWrite == <<"r", "W">>

\* The k-th parameter of an object: no flags, no syntax.
ParameterElem(k) ==
    [name |-> Some(<<"P", Digit(k)>>), access |-> Some(ReadWrite),
     status |-> None, activeNotify |-> None, forcedInform |-> None,
     description |-> Some(PhParam), syntax |-> None]

ObjectElem(name, n) ==
    [name |-> Some(name), access |-> Some(ReadOnly),
     description |-> Some(PhObject),
     parameters |-> [k \in 1..n |-> ParameterElem(k)]]

ObjectNames == { <<"A">>, <<"B">>, <<"C">> }

ObjectElements == {ObjectElem(n, k) : n \in ObjectNames, k \in 0..MaxParams}

ProfileParameter(req) == [ref |-> Some(<<"P", "1">>), requirement |-> req]

ObjectRef(ref, params) ==
    [ref |-> Some(ref), requirement |-> Some(ReadOnly), parameters |-> params]

RefX == ObjectRef(<<"x">>, <<>>)
RefY == ObjectRef(<<"y">>, << ProfileParameter(Some(ReadWrite)),
                             ProfileParameter(Some(ReadOnly)) >>)

\* The object references of one profile.
RefLists == { <<>>, <<RefX>>, <<RefY>>, <<RefY, RefX>>, <<RefX, RefX>> }

ProfileElem(name, base, refs) ==
    [name |-> name, base |-> base, extends |-> None, objects |-> refs]

\* Name and base of a profile.
ProfileHeads ==
    { << Some(<<"A", "b">>), None >>, << Some(<<"A", "b">>), Some(<<"b">>) >>,
      << Some(<<"B">>), None >> }

ProfileElements == {ProfileElem(h[1], h[2], refs) : h \in ProfileHeads, refs \in RefLists}

Document(name, objs, profs) ==
    [parses |-> TRUE,
     model |-> Some([name |-> name, objects |-> objs, profiles |-> profs])]

ModelName == Some(<<"v", "1">>)

OneProfile == << ProfileElem(Some(<<"B">>), None, <<RefX>>) >>
OneObject == << ObjectElem(<<"A">>, 1) >>

\* Documents with every shape of object list, and one profile.
ObjectDocuments ==
    {Document(ModelName, objs, OneProfile) :
        objs \in SeqUpTo(ObjectElements, MaxObjects)}

\* Documents with every shape of profile list, and one object.
ProfileDocuments ==
    {Document(ModelName, OneObject, profs) :
        profs \in SeqUpTo(ProfileElements, MaxProfiles)}

\* Documents with a name that differs from another by a trailing space.
SpacedNameDocuments ==
    { Document(ModelName, << ObjectElem(<<"A">>, 1), ObjectElem(<<"A", " ">>, 1) >>,
               OneProfile),
      Document(ModelName,
               << ObjectElem(<<"A", " ">>, 0), ObjectElem(<<"B">>, 2),
                  ObjectElem(<<"A">>, 1) >>,
               OneProfile),
      Document(ModelName, << ObjectElem(<<"B", " ", " ", "C">>, 2) >>, OneProfile) }

\* Documents that lack something the code reads.
IncompleteDocuments ==
    { [parses |-> FALSE, model |-> None],
      [parses |-> TRUE, model |-> None],
      Document(None, OneObject, OneProfile),
      Document(ModelName, <<>>, <<>>),
      Document(ModelName,
               << ObjectElem(<<"A">>, 1), [ObjectElem(<<"B">>, 1) EXCEPT !.description = None] >>,
               OneProfile),
      Document(ModelName, << [ObjectElem(<<"A">>, 1) EXCEPT !.name = None] >>, OneProfile),
      Document(ModelName, << [ObjectElem(<<"A">>, 0) EXCEPT !.access = None] >>, OneProfile),
      Document(ModelName,
               << [ObjectElem(<<"A">>, 1) EXCEPT !.parameters[1].description = None] >>,
               OneProfile),
      Document(ModelName,
               << [ObjectElem(<<"A">>, 2) EXCEPT !.parameters[2].name = None] >>,
               OneProfile),
      Document(ModelName, OneObject,
               << ProfileElem(Some(<<"B">>), None,
                          << ObjectRef(<<"x">>, << ProfileParameter(None) >>) >>) >>),
      Document(ModelName, OneObject,
               << ProfileElem(None, None, <<RefX>>), ProfileElem(Some(<<"B">>), None, <<RefY>>) >>) }

Documents ==
    ObjectDocuments \cup ProfileDocuments \cup SpacedNameDocuments
        \cup IncompleteDocuments

(***************************************************************************)
(* The specification of parse_model.                                       *)
(***************************************************************************)
TextIdle == model = <<>> /\ cleaned = <<>> /\ recleaned = <<>> /\ tpc = "idle"
ParamIdle == param = None /\ result = None /\ ppc = "idle"
PipelineIdle ==
    /\ doc = None /\ pc = "idle" /\ version = None /\ objects = <<>>
    /\ profiles = <<>> /\ df_model = <<>> /\ index_ranges_list = <<>>
    /\ index0 = None /\ df_profile = <<>> /\ wb = EmptyWorkbook
    /\ outfile = "absent" /\ stages = <<>>

Init ==
    /\ doc \in Documents
    /\ pc = "start"
    /\ version = None
    /\ objects = <<>>
    /\ profiles = <<>>
    /\ df_model = <<>>
    /\ index_ranges_list = <<>>
    /\ index0 = None
    /\ df_profile = <<>>
    /\ wb = EmptyWorkbook
    /\ outfile = "absent"
    /\ stages = <<>>
    /\ TextIdle
    /\ ParamIdle

Next ==
    \/ Load
    \/ Flatten
    \/ Clean
    \/ Ranges
    \/ SortProfiles
    \/ BuildWorkbook
    \/ Save

Spec == Init /\ [][Next]_vars

(***************************************************************************)
(* clean_model on one-row tables: the texts a description cell may hold.   *)
(***************************************************************************)
MaxTokens == 4

Tokens ==
    { <<"a">>, <<SP>>, <<NL, SP>>, PhObject, PhParam,
      <<" ", "{", "{", "e", "n", "u", "m", "}", "}">>,
      <<"{", "{", "b", "|", "a", "}", "}">>,
      <<"{", "{", "w", "}", "}">> }

RECURSIVE Concat(_)
Concat(parts) == IF parts = <<>> THEN <<>> ELSE Head(parts) \o Concat(Tail(parts))

ExampleText ==
    <<"V", "a", "l", "u", "e", " ", "o", "f", " ">> \o PhParam \o
    <<" ", "i", "n", " ">> \o PhObject
DeviceWiFi == <<"D", "e", "v", "i", "c", "e", ".", "W", "i", "F", "i">>
Enable == <<"E", "n", "a", "b", "l", "e">>
ExampleResolved ==
    <<"V", "a", "l", "u", "e", " ", "o", "f", " ">> \o Enable \o
    <<" ", "i", "n", " ">> \o DeviceWiFi

Texts == {Concat(ts) : ts \in SeqUpTo(Tokens, MaxTokens)}

\* Object and Parameter of the row; the Object ends in a space.
RowNames == << <<"D", ".", "W", " ">>, <<"E">> >>

TextRow(names, text) ==
    [Object |-> names[1], Access |-> ReadOnly, Description |-> text,
     Parameter |-> names[2], ParameterAccess |-> ReadWrite,
     ParameterDescription |-> text]

\* One-row tables: every text, and the example of the specification.
TextTables ==
    {<< TextRow(RowNames, t) >> : t \in Texts}
        \cup { << TextRow(<< DeviceWiFi, Enable >>, ExampleText) >> }

InitText ==
    /\ model \in TextTables
    /\ cleaned = <<>>
    /\ recleaned = <<>>
    /\ tpc = "raw"
    /\ PipelineIdle
    /\ ParamIdle

\* df_model = clean_model(model)
CleanTable ==
    /\ tpc = "raw"
    /\ cleaned' = clean_model(model)
    /\ tpc' = "cleaned"
    /\ UNCHANGED << model, recleaned, pvars, gvars >>

\* clean_model run again, on its own output.
CleanAgain ==
    /\ tpc = "cleaned"
    /\ recleaned' = clean_model(cleaned)
    /\ tpc' = "recleaned"
    /\ UNCHANGED << model, cleaned, pvars, gvars >>

NextText ==
    \/ CleanTable
    \/ CleanAgain

SpecText == InitText /\ [][NextText]_vars

(***************************************************************************)
(* get_params on one parameter: the shapes of its <syntax>.                *)
(***************************************************************************)
MaxSyntaxChildren == 2

Element(tag, tagtext, text, kids) ==
    [tag |-> tag, tagtext |-> tagtext, text |-> text, kids |-> kids]

Leaf(tag, value, nkids) == [tag |-> tag, value |-> value, nkids |-> nkids]

BooleanText == <<"b", "o", "o", "l", "e", "a", "n">>
StringText == <<"s", "t", "r", "i", "n", "g">>
UnsignedIntText == <<"u", "n", "s", "i", "g", "n", "e", "d", "I", "n", "t">>
ListText == <<"l", "i", "s", "t">>
DefaultText == <<"d", "e", "f", "a", "u", "l", "t">>

On == <<"O", "n">>
Off == <<"O", "f", "f">>
Auto == <<"A", "u", "t", "o">>
Seconds == <<"s", "e", "c", "o", "n", "d", "s">>
SixtyFour == <<"6", "4">>

Size == Leaf("size", SixtyFour, 0)
Enumeration(v) == Leaf("enumeration", v, 0)

\* <boolean/> and a boolean with a child.
BooleanElements ==
    { Element("boolean", BooleanText, None, <<>>),
      Element("boolean", BooleanText, None, << Leaf("description", <<>>, 0) >>) }

\* <string/>, strings with a size (childless, or with a child of its own),
\* and strings with enumerations.
PlainStringElements ==
    { Element("string", StringText, None, <<>>),
      Element("string", StringText, None, << Size >>),
      Element("string", StringText, None, << Leaf("size", SixtyFour, 1) >>) }

EnumStringElements ==
    { Element("string", StringText, None, << Enumeration(On) >>),
      Element("string", StringText, None,
              << Enumeration(On), Enumeration(Off), Enumeration(Auto) >>),
      Element("string", StringText, None, << Size, Enumeration(Off), Enumeration(On) >>) }

\* Other type elements, <list/>, and <default>.
OtherElements ==
    { Element("unsignedInt", UnsignedIntText, None, <<>>),
      Element("unsignedInt", UnsignedIntText, None, << Leaf("units", Seconds, 0) >>),
      Element("unsignedInt", UnsignedIntText, None, << Leaf("range", <<>>, 0) >>),
      Element("list", ListText, None, <<>>),
      Element("default", DefaultText, None, <<>>),
      Element("default", DefaultText, Some(<<"1">>), << Leaf("description", <<>>, 0) >>) }

SyntaxElements ==
    BooleanElements \cup PlainStringElements \cup EnumStringElements \cup OtherElements

\* A syntax has one type: at most one of its children is a boolean or a
\* string element.
SyntaxChildren ==
    {kids \in SeqUpTo(SyntaxElements, MaxSyntaxChildren) :
        Cardinality({i \in 1..Len(kids) : kids[i].tag \in {"boolean", "string"}}) <= 1}

Deprecated == <<"d", "e", "p", "r", "e", "c", "a", "t", "e", "d">>
CanDeny == <<"c", "a", "n", "D", "e", "n", "y">>
TrueText == <<"t", "r", "u", "e">>

Descriptions == { <<"x">>, <<"i", "n", " ">> \o PhUnits }

ParameterElements ==
    [name : {Some(Enable)}, access : {Some(ReadWrite)},
     status : {None, Some(<<>>), Some(Deprecated)},
     activeNotify : {None, Some(CanDeny)},
     forcedInform : {None, Some(TrueText)},
     description : {Some(d) : d \in Descriptions},
     syntax : {None} \cup {Some(kids) : kids \in SyntaxChildren}]

InitParam ==
    /\ param \in {Some(p) : p \in ParameterElements}
    /\ result = None
    /\ ppc = "call"
    /\ PipelineIdle
    /\ TextIdle

\* (name, access, desc) = get_params(param)
GetParams ==
    /\ ppc = "call"
    /\ result' = Some(get_params(Get(param)))
    /\ ppc' = "returned"
    /\ UNCHANGED << param, pvars, tvars >>

NextParam == GetParams

SpecParam == InitParam /\ [][NextParam]_vars
(***************************************************************************)
(* Properties of the Model table (specification Spec).                     *)
(***************************************************************************)
Completed(stage) == \E i \in 1..Len(stages) : stages[i] = stage

InputObjects == Get(doc.model).objects
InputProfiles == Get(doc.model).profiles

\* The rows an object is to produce: one per parameter, one if it has none.
RowCount(o) == IF o.parameters = <<>> THEN 1 ELSE Len(o.parameters)

\* The number of rows the objects before the i-th are to produce.
RECURSIVE RowsBefore(_)
RowsBefore(i) ==
    IF i <= 1 THEN 0 ELSE RowsBefore(i - 1) + RowCount(InputObjects[i - 1])

\* The rows of the Model table whose Object field is the text v.
RowsOf(v) == {r \in 1..Len(df_model) : df_model[r].Object = v}

\* An object's name as the cleaned table shows it.
CleanedName(o) == Strip(RemoveNewlines(CollapseSpaces(Get(o.name))))

CleanedNamesDistinct ==
    \A i, j \in 1..Len(InputObjects) :
        i # j => CleanedName(InputObjects[i]) # CleanedName(InputObjects[j])

\* The rows of the i-th object stand at RowsBefore(i)+1 .., in the order of
\* its parameters; an object without parameters has one row with empty
\* parameter fields.
BlockInDocumentOrder(i) ==
    LET o == InputObjects[i]
    IN  \A k \in 1..RowCount(o) :
            LET row == df_model[RowsBefore(i) + k]
            IN  /\ row.Object = CleanedName(o)
                /\ IF o.parameters = <<>>
                   THEN /\ row.Parameter = <<>>
                        /\ row.ParameterAccess = <<>>
                        /\ row.ParameterDescription = <<>>
                   ELSE row.Parameter = Get(o.parameters[k].name)

\* C1 as stated: for every object O of the input, the Model table holds
\* exactly as many rows whose Object field equals O's name (as cleaned) as O
\* has parameters (one, with empty parameter fields, if it has none), in
\* document order.
C1_RowsPerObjectName ==
    Completed("clean") =>
        /\ Len(df_model) = RowsBefore(Len(InputObjects) + 1)
        /\ \A i \in 1..Len(InputObjects) :
              /\ Cardinality(RowsOf(CleanedName(InputObjects[i]))) = RowCount(InputObjects[i])
              /\ BlockInDocumentOrder(i)

\* C1 amended: the table holds one block of rows per object, in document
\* order of objects and then parameters, one row per parameter, or one row
\* with empty parameter fields for an object without parameters; and when
\* the cleaned names of the objects are pairwise distinct, the rows whose
\* Object field equals O's cleaned name are exactly the rows of O's block.
C1_Flattening ==
    Completed("clean") =>
        /\ Len(df_model) = RowsBefore(Len(InputObjects) + 1)
        /\ \A i \in 1..Len(InputObjects) :
              /\ BlockInDocumentOrder(i)
              /\ CleanedNamesDistinct =>
                    RowsOf(CleanedName(InputObjects[i])) =
                        (RowsBefore(i) + 1)..(RowsBefore(i) + RowCount(InputObjects[i]))

\* An object without parameters between two objects with parameters, the
\* names distinct.
C1_Witness ==
    /\ Completed("clean")
    /\ Len(InputObjects) = 3
    /\ CleanedNamesDistinct
    /\ Len(InputObjects[1].parameters) = 2
    /\ InputObjects[2].parameters = <<>>
    /\ Len(df_model) = 4

\* The Object value of range k: the k-th distinct value of the column.
RangeValue(k) == Unique([i \in 1..Len(df_model) |-> df_model[i].Object])[k]

RangeRows(k) == index_ranges_list[k][1]..index_ranges_list[k][2]

\* Every range has as many rows as the table has rows with its Object
\* value, starts below the header (table row i is sheet row i + 2), and no
\* two ranges overlap.
RangesAreBlocks ==
    /\ Len(index_ranges_list) =
          Cardinality({df_model[i].Object : i \in 1..Len(df_model)})
    /\ \A k \in 1..Len(index_ranges_list) :
          /\ Cardinality(RangeRows(k)) = Cardinality(RowsOf(RangeValue(k)))
          /\ \A r \in RangeRows(k) :
                /\ r - 2 \in 0..(Len(df_model) - 1)
                /\ df_model[r - 1].Object = RangeValue(k)
          /\ Completed("build") =>
                \A r \in RangeRows(k) : wb.Model[r].Object = RangeValue(k)
    /\ \A k, m \in 1..Len(index_ranges_list) :
          k # m => RangeRows(k) \cap RangeRows(m) = {}

\* C2 as stated: for every distinct Object value the merge range covers a
\* contiguous block with as many rows as that object produced, no two ranges
\* overlap, and the range is shifted by 2.
C2_RangesAlways == Completed("ranges") => RangesAreBlocks

\* C2 amended: the same, for inputs whose objects have pairwise distinct
\* cleaned names; the range of the i-th object is then exactly its block.
C2_Grouping ==
    (Completed("ranges") /\ CleanedNamesDistinct) =>
        /\ RangesAreBlocks
        /\ \A i \in 1..Len(InputObjects) :
              index_ranges_list[i] =
                  << 2 + RowsBefore(i), 2 + RowsBefore(i) + RowCount(InputObjects[i]) - 1 >>

C2_Witness ==
    /\ Completed("build")
    /\ CleanedNamesDistinct
    /\ Len(InputObjects) = 3
    /\ Len(InputObjects[2].parameters) = 2
    /\ index_ranges_list[2][2] - index_ranges_list[2][1] = 1
    /\ Len(wb.merged) = 9

(***************************************************************************)
(* Properties of the run as a whole (specification Spec).                  *)
(***************************************************************************)
EarlierStages == << "load", "flatten", "clean", "ranges", "sort", "build" >>

\* C3: the output file changes only in the step that follows loading,
\* flattening, normalization, range computation, sorting and the building
\* of the workbook; a run that aborts in one of those never touches it.
C3_NoPartialOutput ==
    [][ /\ outfile' # outfile => (pc = "built" /\ stages = EarlierStages)
        /\ (pc' = "aborted" /\ stages # EarlierStages) => outfile' = outfile ]_vars

\* A run that aborted after some stages, and no file.
C3_Witness ==
    /\ pc = "aborted"
    /\ Len(stages) \in 2..5
    /\ outfile = "absent"

\* Every attribute and description the code reads is there.
CompleteObject(o) ==
    /\ None \notin {o.name, o.access, o.description}
    /\ \A i \in 1..Len(o.parameters) :
          None \notin {o.parameters[i].name, o.parameters[i].access,
                       o.parameters[i].description}

CompleteProfile(p) ==
    /\ p.name # None
    /\ \A i \in 1..Len(p.objects) :
          /\ None \notin {p.objects[i].ref, p.objects[i].requirement}
          /\ \A j \in 1..Len(p.objects[i].parameters) :
                None \notin {p.objects[i].parameters[j].ref,
                             p.objects[i].parameters[j].requirement}

WellFormed ==
    /\ doc.parses
    /\ doc.model # None
    /\ Get(doc.model).name # None
    /\ \A i \in 1..Len(InputObjects) : CompleteObject(InputObjects[i])
    /\ \A i \in 1..Len(InputProfiles) : CompleteProfile(InputProfiles[i])

\* C10: on a well-formed document, also one with no object or no profile,
\* no stage before the save fails, and the workbook gets its two sheets.
C10_EmptyCollections ==
    WellFormed =>
        /\ pc = "aborted" => stages = EarlierStages
        /\ pc = "done" => (wb.Model # <<>> /\ wb.Profiles # <<>>)

(***************************************************************************)
(* Properties of the Profiles table (specification Spec).                  *)
(***************************************************************************)
\* The position of each sort key of the documents in the order of Python's
\* strings: "Ab" < "B", "x" < "y", "" < "b".
ProfileRank(v) == IF v = Some(<<"A", "b">>) THEN 1 ELSE IF v = Some(<<"B">>) THEN 2 ELSE 3
NameRank(v) == IF v = Some(<<"x">>) THEN 1 ELSE 2
BaseRank(v) == IF v = <<>> THEN 1 ELSE 2

KeyRank(r) == << ProfileRank(r.Profile), NameRank(r.Name), BaseRank(r.Base) >>

RankBefore(a, b) ==
    \/ a[1] < b[1]
    \/ a[1] = b[1] /\ a[2] < b[2]
    \/ a[1] = b[1] /\ a[2] = b[2] /\ a[3] < b[3]

\* The number of object references of the first n profiles.
RECURSIVE PairCount(_)
PairCount(n) ==
    IF n = 0 THEN 0 ELSE PairCount(n - 1) + Len(InputProfiles[n].objects)

\* C6: the Profiles table holds one row per (profile, object reference)
\* pair of the input, ordered by Profile, then Name, then Base, and rows
\* with equal keys keep their document order.
C6_ProfileSort ==
    Completed("sort") =>
        /\ Len(df_profile) = PairCount(Len(InputProfiles))
        /\ {df_profile[i].index : i \in 1..Len(df_profile)} = 0..(Len(df_profile) - 1)
        /\ \A i \in 1..Len(InputProfiles) :
              \A j \in 1..Len(InputProfiles[i].objects) :
                 \E r \in 1..Len(df_profile) :
                    /\ df_profile[r].index = PairCount(i - 1) + j - 1
                    /\ df_profile[r].Profile = InputProfiles[i].name
                    /\ df_profile[r].Name = InputProfiles[i].objects[j].ref
                    /\ df_profile[r].Base =
                          IF InputProfiles[i].base = None
                          THEN <<>>
                          ELSE Get(InputProfiles[i].base)
        /\ \A r, t \in 1..Len(df_profile) :
              r < t =>
                 /\ ~RankBefore(KeyRank(df_profile[t]), KeyRank(df_profile[r]))
                 /\ KeyRank(df_profile[r]) = KeyRank(df_profile[t]) =>
                       df_profile[r].index < df_profile[t].index

\* Rows that the sort moved, two of them with equal keys, and two that
\* differ in Base alone.
C6_Witness ==
    /\ Completed("sort")
    /\ df_profile[1].index > 0
    /\ \E r, t \in 1..Len(df_profile) :
          r < t /\ KeyRank(df_profile[r]) = KeyRank(df_profile[t])
    /\ \E r, t \in 1..Len(df_profile) :
          /\ KeyRank(df_profile[r])[1] = KeyRank(df_profile[t])[1]
          /\ KeyRank(df_profile[r])[2] = KeyRank(df_profile[t])[2]
          /\ KeyRank(df_profile[r])[3] < KeyRank(df_profile[t])[3]
          /\ df_profile[t].index < df_profile[r].index

(***************************************************************************)
(* Properties of the normalizer (specification SpecText).                  *)
(***************************************************************************)
ObjectWord == <<"o", "b", "j", "e", "c", "t">>
ParamWord == <<"p", "a", "r", "a", "m">>

\* A cell resolved as C4 requires, given the raw cell and the cleaned row:
\* the words of {{object}} and {{param}} are not left behind (no text of
\* the inputs holds them outside these placeholders), the row's values
\* stand in, and the example of the specification resolves as stated.
Resolved(raw, row, cell) ==
    /\ ~Contains(cell, ObjectWord)
    /\ ~Contains(cell, ParamWord)
    /\ Contains(raw, PhObject) => Contains(cell, row.Object)
    /\ Contains(raw, PhParam) => Contains(cell, row.Parameter)
    /\ (raw = ExampleText /\ row.Object = DeviceWiFi /\ row.Parameter = Enable)
          => cell = ExampleResolved

\* C4: in both description columns every {{object}} and {{param}} is
\* replaced by the row's Object and Parameter value and never reduced to the
\* bare word; "Value of {{param}} in {{object}}" with Parameter "Enable" and
\* Object "Device.WiFi" becomes "Value of Enable in Device.WiFi".
C4_PlaceholderOrder ==
    tpc # "raw" =>
        /\ Resolved(model[1].Description, cleaned[1], cleaned[1].Description)
        /\ Resolved(model[1].ParameterDescription, cleaned[1],
                    cleaned[1].ParameterDescription)

\* The example row, cleaned.
C4_Witness ==
    /\ tpc = "cleaned"
    /\ model[1].Description = ExampleText
    /\ model[1].Object = DeviceWiFi
    /\ cleaned[1].Description = ExampleResolved

\* A text holds a placeholder form: "{{" with "}}" somewhere behind it.
HasPlaceholder(t) ==
    \E i, j \in 1..Len(t) :
        i + 2 <= j /\ StartsWithAt(t, i, <<"{", "{">>) /\ StartsWithAt(t, j, <<"}", "}">>)

\* C5: a normalized text without placeholder forms is unchanged by the
\* normalizer.
C5_Idempotent ==
    (tpc = "recleaned" /\ ~HasPlaceholder(cleaned[1].Description)) =>
        recleaned[1].Description = cleaned[1].Description

(***************************************************************************)
(* Properties of get_params (specification SpecParam).                     *)
(***************************************************************************)
TheSyntax == Get(Get(param).syntax)
HasSyntax == Get(param).syntax # None
TheDescription == Get(result).desc

ChildrenWithTag(tag) == {i \in 1..Len(TheSyntax) : TheSyntax[i].tag = tag}

\* The values of the enumeration children of the string child, if any.
EnumValues ==
    IF ~HasSyntax \/ ChildrenWithTag("string") = {} THEN <<>>
    ELSE LET kids == TheSyntax[CHOOSE i \in ChildrenWithTag("string") : TRUE].kids
             enums == SelectSeq(kids, LAMBDA k : k.tag = "enumeration")
         IN  [i \in 1..Len(enums) |-> enums[i].value]

EnumsOnOffAuto ==
    <<"E", "n", "u", "m", "s", " ", "(", "O", "n", "|", "O", "f", "f", "|",
      "A", "u", "t", "o", ")">>
EnumsOn == <<"E", "n", "u", "m", "s", " ", "(", "O", "n", ")">>
EnumsOffOn == <<"E", "n", "u", "m", "s", " ", "(", "O", "f", "f", "|", "O", "n", ")">>

\* C7: a string syntax with enumeration children is annotated
\* "Enums (v1|v2|...)", the values in document order, and "String" is not
\* part of the annotation.
C7_EnumRendering ==
    (ppc = "returned" /\ EnumValues # <<>>) =>
        /\ EnumValues = <<On, Off, Auto>> => Contains(TheDescription, EnumsOnOffAuto)
        /\ EnumValues = <<On>> => Contains(TheDescription, EnumsOn)
        /\ EnumValues = <<Off, On>> => Contains(TheDescription, EnumsOffOn)
        /\ ~Contains(TheDescription, <<"S", "t", "r", "i", "n", "g">>)
        /\ ~Contains(TheDescription, <<"s", "t", "r", "i", "n", "g">>)

C7_Witness ==
    /\ ppc = "returned"
    /\ EnumValues = <<On, Off, Auto>>
    /\ Len(TheSyntax) = 2
    /\ TheSyntax[1].tag = "list"
    /\ Contains(TheDescription, EnumsOnOffAuto)

\* The flag tokens, as the description is to start with them.
FlagToken(optional) ==
    IF optional = None \/ optional = Some(<<>>) THEN <<>>
    ELSE <<SP>> \o PadRight(Get(optional), 8) \o <<SP>>

\* C8: whatever the syntax, the description starts with the padded status,
\* activeNotify and forcedInform values that are present, in that order, and
\* ends with the raw description.
C8_FlagPrefix ==
    ppc = "returned" =>
        /\ IsPrefix(FlagToken(Get(param).status) \o FlagToken(Get(param).activeNotify)
                        \o FlagToken(Get(param).forcedInform),
                    TheDescription)
        /\ Get(param).description = Some(<<"x">>) =>
              TheDescription[Len(TheDescription)] = "x"

StringMaxLength64 ==
    <<"S", "t", "r", "i", "n", "g", ",", " ", "m", "a", "x", " ", "l", "e", "n",
      "g", "t", "h", " ", "6", "4">>

\* The string child has a size with maxLength and no enumeration.
SizedString ==
    \E i \in ChildrenWithTag("string") :
        /\ \E k \in 1..Len(TheSyntax[i].kids) : TheSyntax[i].kids[k].tag = "size"
        /\ \A k \in 1..Len(TheSyntax[i].kids) : TheSyntax[i].kids[k].tag # "enumeration"

\* C9: a boolean child, with or without children of its own, gives the
\* annotation "Boolean"; a string child with a size and no enumeration gives
\* "String, max length N"; the tag of the first child is the annotation only
\* when the syntax has neither a boolean nor a string child.
C9_Classification ==
    (ppc = "returned" /\ HasSyntax) =>
        /\ ChildrenWithTag("boolean") # {} =>
              Contains(TheDescription, <<"B", "o", "o", "l", "e", "a", "n">>)
        /\ SizedString => Contains(TheDescription, StringMaxLength64)
        /\ (ChildrenWithTag("boolean") # {} \/ ChildrenWithTag("string") # {}) =>
              ~Contains(TheDescription, <<SP>> \o TheSyntax[1].tagtext \o <<SP>>)
====
